---- MODULE Spec2Model ----
(***************************************************************************)
(* Model of the dual-path (plain / tor) name prober.                       *)
(*                                                                         *)
(* The repository holds two programs with the same structure:              *)
(*   src/block-tester.go   a fresh SOCKS5 dialer, DNS resolver and HTTP    *)
(*                         client per process(name) call, -workers flag    *)
(*   src/unnamed/part_000  one tor resolver / client built in main and     *)
(*                         shared by every probe, run(5)                   *)
(* The variable "variant" says which program runs.                         *)
(*                                                                         *)
(* Goroutines are modelled as interleaved processes: main, the workers     *)
(* started by run, and the two probe goroutines of every process call.     *)
(* The worker goroutines are anonymous closures (nothing in the code tells *)
(* one from another), so the running workers are kept as a bag of worker   *)
(* states, "pool".                                                         *)
(* processName touches only its own local result and the WaitGroup, so     *)
(* one run of it (with the deferred wg.Done) is one action; the assignment *)
(* r.Plain = ... / r.Tor = ... of the calling closure is a later action.   *)
(* SpecProbe follows a single processName call step by step (resolve,      *)
(* HTTP GET, body read) against every answer of the network.               *)
(***************************************************************************)
EXTENDS Integers, Sequences, FiniteSets, Bags, TLC

\* ---------------------------------------------------------------- bounds
MaxNames == 2
MaxWorkers == 2
MaxAnswers == 2

\* ------------------------------------------------------ program constants
\* b := make([]byte, 16)
RandLen == 16
\* t.run(5)
FixedWorkers == 5
\* wg.Add(2)
ProbesPerName == 2

BlockTester == "block-tester.go"
Part000 == "part_000"
Variants == {BlockTester, Part000}

Paths == {"Plain", "Tor"}
NameSet == {"a", "b"}

\* strings.Split never returns an empty slice: every input has N >= 1 names.
InputNames == UNION {[1..n -> NameSet] : n \in 1..MaxNames}

\* ------------------------------------------------------------ basicResult
\* A nil *basicResult.
Nil == [nil |-> TRUE]

\* r = &basicResult{}
NewBasicResult ==
  [LookupTook |-> 0, HTTPConnectionTook |-> 0, Error |-> "", Page |-> "", IP |-> ""]

\* Measured wall-clock durations (time.Since), abstracted to one positive value.
Durations == {1}

\* A resource record of a DNS answer section: an A record with its address,
\* or a record of another type.
AnswerRRs ==
  { [type |-> "CNAME", a |-> ""],
    [type |-> "A", a |-> "192.0.2.1"],
    [type |-> "A", a |-> "192.0.2.2"] }

\* resp.Answer: up to MaxAnswers records.
Answers == UNION {[1..n -> AnswerRRs] : n \in 0..MaxAnswers}

\* What the network answers to one probe: the DNS exchange (an error, or a
\* message with its answer section), the HTTP request (http.NewRequest fails,
\* client.Do fails, or a response) and the body read (an error or not, with
\* the bytes ioutil.ReadAll got).
DNSResponses ==
  {[err |-> TRUE, answer |-> <<>>]} \cup [err : {FALSE}, answer : Answers]
HTTPResponses == {"reqErr", "err", "ok"}
BodyResponses == [err : BOOLEAN, data : {"", "<html>"}]
NetResponses == [dns : DNSResponses, http : HTTPResponses, body : BodyResponses]

MalformedMsg(v) ==
  IF v = BlockTester THEN "Malformed DNS response" ELSE "Malformed A records"

\* An answer loop without the break: the address of the last A record.
RECURSIVE LastA(_)
LastA(answer) ==
  IF answer = <<>> THEN ""
  ELSE IF LastA(Tail(answer)) # "" THEN LastA(Tail(answer))
  ELSE IF Head(answer).type = "A" THEN Head(answer).a
  ELSE ""

\* for _, answer := range resp.Answer { if a, ok := answer.(*dns.A); ok
\* { r.IP = a.A.String(); break } }: the address of the first A record, or "".
RECURSIVE FirstA(_)
FirstA(answer) ==
  IF answer = <<>> THEN ""
  ELSE IF Head(answer).type = "A" THEN Head(answer).a
  ELSE FirstA(Tail(answer))

\* Lines 72-92: the resolution step.
Resolve(br, resp, d, v) ==
  LET r1 == [br EXCEPT !.LookupTook = d] IN
  IF resp.dns.err THEN [r1 EXCEPT !.Error = "dns exchange error"]
  ELSE IF Len(resp.dns.answer) = 0 THEN [r1 EXCEPT !.Error = "No addresses found"]
  ELSE LET r2 == [r1 EXCEPT !.IP = FirstA(resp.dns.answer)] IN
       IF r2.IP = "" THEN [r2 EXCEPT !.Error = MalformedMsg(v)] ELSE r2

\* Lines 93-105: the HTTP GET.  A failing http.NewRequest returns before the
\* connection time is taken.
HTTPGet(br, resp, d) ==
  CASE resp.http = "reqErr" -> [br EXCEPT !.Error = "new request error"]
    [] resp.http = "err"    -> [br EXCEPT !.HTTPConnectionTook = d, !.Error = "http error"]
    [] resp.http = "ok"     -> [br EXCEPT !.HTTPConnectionTook = d]

\* A body read that starts from a fresh basicResult when the read fails.
ReadBodyResets(br, resp, grabPage) ==
  IF ~grabPage THEN br
  ELSE IF resp.body.err
       THEN [NewBasicResult EXCEPT !.Error = "body read error", !.Page = resp.body.data]
       ELSE [br EXCEPT !.Page = resp.body.data]

\* Lines 107-113: the body read, only when grabPage.  On an error
\* ioutil.ReadAll returns what it read before the error, and r.Page is
\* assigned all the same.
ReadBody(br, resp, grabPage) ==
  IF ~grabPage THEN br
  ELSE [br EXCEPT !.Error = IF resp.body.err THEN "body read error" ELSE @,
                  !.Page = resp.body.data]

\* The three returns of the resolution step: err != nil,
\* len(resp.Answer) == 0, r.IP == "".
ResolveReturns(resp) ==
  \/ resp.dns.err
  \/ Len(resp.dns.answer) = 0
  \/ FirstA(resp.dns.answer) = ""

\* An HTTP GET whose failures do not return.
HTTPNeverReturns(resp) == FALSE

\* The two returns of the HTTP GET: err != nil after http.NewRequest and
\* after client.Do.
HTTPReturns(resp) == resp.http # "ok"

\* processName: the steps in order, each failure returning at once.
ProcessNameResult(resp, grabPage, d1, d2, v) ==
  LET a == Resolve(NewBasicResult, resp, d1, v) IN
  IF ResolveReturns(resp) THEN a
  ELSE LET b == HTTPGet(a, resp, d2) IN
       IF HTTPReturns(resp) THEN b
       ELSE ReadBody(b, resp, grabPage)

\* A process that asks both probes for the page.
GrabPageAlways(p) == TRUE

\* The grabPage argument process passes for path p: false for the plain
\* probe, true for the tor probe.
GrabPage(p) == p = "Tor"

\* ------------------------------------------------------- proxy identity
ByteSamples == {0, 171}
\* The outputs of rand.Read(b) the model draws from.
RandReads == {[i \in 1..RandLen |-> x] : x \in ByteSamples}

HexDigits == <<"0", "1", "2", "3", "4", "5", "6", "7",
               "8", "9", "A", "B", "C", "D", "E", "F">>

\* fmt.Sprintf("%X", b): two upper-case hex digits per byte.
RECURSIVE Hex(_)
Hex(b) ==
  IF b = <<>> THEN ""
  ELSE HexDigits[(Head(b) \div 16) + 1] \o HexDigits[(Head(b) % 16) + 1] \o Hex(Tail(b))

\* A randomString that formats the buffer without the bytes rand.Read gave.
RandomStringZeroed(b) == Hex([i \in 1..RandLen |-> 0])

\* randomString: fmt.Sprintf("%X", b) of the bytes read.
RandomString(b) == Hex(b)

NoDialer == [id |-> -1, user |-> "", password |-> ""]
\* proxy.FromURL(u, &net.Dialer{}) of part_000: one dialer, no credentials.
SharedDialer == [id |-> 0, user |-> "", password |-> ""]

\* A newDialer that hands out one cached dialer instead of building a new one.
SOCKS5Cached(id, randStr) == [id |-> 1, user |-> randStr, password |-> randStr]

\* proxy.SOCKS5(..., &proxy.Auth{User: randStr, Password: randStr}, ...):
\* dialer number id, with randStr as user and as password.
SOCKS5(id, randStr) == [id |-> id, user |-> randStr, password |-> randStr]

\* ------------------------------------------------------------- channels
\* A channel made one slot short of the number of names.
MakeChanShort(n) == n - 1

\* make(chan string, len(splitNames)), make(chan result, len(splitNames)):
\* the capacity of a channel made for n items.
MakeChan(n) == n

ChanSend(ch, v) == Append(ch, v)
ChanRest(ch) == Tail(ch)

\* A Wait that returns while one Done is still outstanding.
WaitReturnsEarly(counter) == counter <= 1

\* wg.Wait returns when the counter is zero.
WaitReturns(counter) == counter = 0

\* A probe goroutine started with the plain client and resolver whatever its path.
ClientOfPlain(netw, p, name) == netw[<<"Plain", name>>]

\* The client and resolver handed to processName for path p (t.client and
\* t.resolver, or the tor client and resolver): what they answer for name.
ClientOf(netw, p, name) == netw[<<p, name>>]

VARIABLES
  variant,        \* which program runs
  workers,        \* the worker count given to run
  splitNames,     \* the lines of the names file
  net,            \* per (path, name): what the network answers
  mainpc,         \* main's position
  names,          \* buffer of t.names
  namesClosed,    \* t.names closed
  results,        \* buffer of t.results
  resultsClosed,  \* t.results closed
  chanCap,        \* capacity of both channels
  collected,      \* main's local results slice
  spawned,        \* run's loop counter i
  runwg,          \* run's WaitGroup counter
  torClient,      \* part_000: the tester's shared tor dialer/resolver/client
  pool,           \* bag of the states of the worker goroutines started by run
  nDialers,       \* newDialer calls so far
  calls,          \* per path: processName calls run so far
  call,           \* one processName call followed step by step
  abort           \* "none", or why the process died

vars == <<variant, workers, splitNames, net, mainpc, names, namesClosed, results,
          resultsClosed, chanCap, collected, spawned, runwg, torClient, pool,
          nDialers, calls, call, abort>>

\* Three answers of the network to a probe: the DNS exchange fails; the
\* body read fails after a good resolution and request; everything succeeds.
ResolveFails ==
  [dns |-> [err |-> TRUE, answer |-> <<>>], http |-> "ok",
   body |-> [err |-> FALSE, data |-> "<html>"]]
BodyReadFails ==
  [dns |-> [err |-> FALSE, answer |-> <<[type |-> "A", a |-> "192.0.2.1"]>>],
   http |-> "ok", body |-> [err |-> TRUE, data |-> ""]]
Succeeds ==
  [dns |-> [err |-> FALSE, answer |-> <<[type |-> "A", a |-> "192.0.2.1"]>>],
   http |-> "ok", body |-> [err |-> FALSE, data |-> "<html>"]]

\* The networks a run is checked against.  Each answers a given name on a
\* given path the same way throughout the run: "b" resolves and serves on the
\* plain path and fails at the body read on the tor path; "a" succeeds on the
\* tor path and, on the plain path, either fails to resolve or succeeds.
Nets ==
  { [k \in Paths \X NameSet |->
       CASE k = <<"Plain", "a">> -> plainA
         [] k = <<"Plain", "b">> -> Succeeds
         [] k = <<"Tor", "a">>   -> Succeeds
         [] k = <<"Tor", "b">>   -> BodyReadFails] : plainA \in {ResolveFails, Succeeds} }

ProbeIdle == [stage |-> "idle", out |-> Nil]
ProbeSpawned == [stage |-> "spawned", out |-> Nil]
NoResult == [Name |-> "", Plain |-> Nil, Tor |-> Nil]

\* No bytes read yet.
NoRand == <<>>

\* A worker goroutine: its position (pc), the name it is processing, and the
\* locals of its process call: r, wg, the two probe goroutines, the bytes
\* rand.Read gave to its newDialer, and the tor dialer/resolver/client handed
\* to the tor probe.
NewWorker ==
  [pc |-> "range", name |-> "", r |-> NoResult, wg |-> 0,
   probe |-> [p \in Paths |-> ProbeIdle], rand |-> NoRand, dialer |-> NoDialer]

WorkerStates == BagToSet(pool)

\* The pool with one worker in state ws moved to state ws2.
Step(ws, ws2) == (pool (-) SetToBag({ws})) (+) SetToBag({ws2})

\* No processName call is being followed.
NoCall ==
  [pc |-> "idle", path |-> "Plain", resp |-> Succeeds, r |-> NewBasicResult,
   steps |-> <<>>]

InitRest ==
  /\ calls = [p \in Paths |-> 0]
  /\ call = NoCall
  /\ variant \in Variants
  /\ workers \in (IF variant = BlockTester THEN 1..MaxWorkers ELSE {FixedWorkers})
  /\ splitNames \in InputNames
  /\ mainpc = "setup"
  /\ names = <<>>
  /\ namesClosed = FALSE
  /\ results = <<>>
  /\ resultsClosed = FALSE
  /\ chanCap = 0
  /\ collected = <<>>
  /\ spawned = 0
  /\ runwg = 0
  /\ torClient = NoDialer
  /\ pool = EmptyBag
  /\ nDialers = 0
  /\ abort = "none"

Init == net \in Nets /\ InitRest

Running == abort = "none"

\* ------------------------------------------------------------------ main
\* main up to the split of the names file: flag parsing, (part_000) the proxy
\* URL and dialer, ReadFile, then the two channels.  A failure prints and
\* returns.
MainSetup ==
  /\ Running /\ mainpc = "setup"
  /\ \E fault \in {"none", "file"} \cup (IF variant = Part000 THEN {"proxy"} ELSE {}) :
       /\ mainpc' = IF fault = "none" THEN "load" ELSE "returned"
       /\ torClient' = IF variant = Part000 /\ fault # "proxy" THEN SharedDialer
                       ELSE torClient
       /\ chanCap' = IF fault = "none" THEN MakeChan(Len(splitNames)) ELSE chanCap
  /\ UNCHANGED <<call, calls, variant, workers, splitNames, net, names, namesClosed, results,
                 resultsClosed, collected, spawned, runwg, pool, nDialers,
                 abort>>

\* for _, n := range splitNames { t.names <- n }
MainLoad ==
  /\ Running /\ mainpc = "load"
  /\ Len(names) < Len(splitNames)
  /\ Len(names) < chanCap
  /\ names' = ChanSend(names, splitNames[Len(names) + 1])
  /\ UNCHANGED <<call, calls, variant, workers, splitNames, net, mainpc, namesClosed, results,
                 resultsClosed, chanCap, collected, spawned, runwg, torClient, pool,
                 nDialers, abort>>

\* close(t.names); t.run(workers)
MainClose ==
  /\ Running /\ mainpc = "load"
  /\ Len(names) = Len(splitNames)
  /\ namesClosed' = TRUE
  /\ mainpc' = "run"
  /\ UNCHANGED <<call, calls, variant, workers, splitNames, net, names, results, resultsClosed,
                 chanCap, collected, spawned, runwg, torClient, pool, nDialers,
                 abort>>

\* A run that starts one worker more than asked.
RunSpawnsOneMore ==
  /\ Running /\ mainpc = "run"
  /\ spawned <= workers
  /\ spawned' = spawned + 1
  /\ runwg' = runwg + 1
  /\ pool' = pool (+) SetToBag({NewWorker})
  /\ UNCHANGED <<call, calls, variant, workers, splitNames, net, mainpc, names,
                 namesClosed, results, resultsClosed, chanCap, collected, torClient,
                 nDialers, abort>>

\* run: wg.Add(1); go func() {...}()
RunSpawn ==
  /\ Running /\ mainpc = "run"
  /\ spawned < workers
  /\ spawned' = spawned + 1
  /\ runwg' = runwg + 1
  /\ pool' = pool (+) SetToBag({NewWorker})
  /\ UNCHANGED <<call, calls, variant, workers, splitNames, net, mainpc, names, namesClosed,
                 results, resultsClosed, chanCap, collected, torClient, nDialers,
                 abort>>

\* A run that returns once the workers are started, without waiting for them.
RunReturnsAtOnce ==
  /\ Running /\ mainpc = "run"
  /\ spawned = workers
  /\ mainpc' = "collect"
  /\ UNCHANGED <<call, calls, variant, workers, splitNames, net, names, namesClosed,
                 results, resultsClosed, chanCap, collected, spawned, runwg, torClient,
                 pool, nDialers, abort>>

\* run: wg.Wait(), then run returns to main.
RunWait ==
  /\ Running /\ mainpc = "run"
  /\ spawned = workers
  /\ WaitReturns(runwg)
  /\ mainpc' = "collect"
  /\ UNCHANGED <<call, calls, variant, workers, splitNames, net, names, namesClosed, results,
                 resultsClosed, chanCap, collected, spawned, runwg, torClient, pool,
                 nDialers, abort>>

\* for r := range t.results { results = append(results, r) }: a receive takes
\* the head of the buffer; on an empty buffer the loop ends only if the
\* channel is closed, and blocks otherwise.
MainCollect ==
  /\ Running /\ mainpc = "collect"
  /\ IF results # <<>>
     THEN /\ collected' = Append(collected, Head(results))
          /\ results' = ChanRest(results)
          /\ mainpc' = mainpc
     ELSE /\ resultsClosed
          /\ mainpc' = "encode"
          /\ UNCHANGED <<collected, results>>
  /\ UNCHANGED <<call, calls, variant, workers, splitNames, net, names, namesClosed,
                 resultsClosed, chanCap, spawned, runwg, torClient, pool, nDialers,
                 abort>>

\* --------------------------------------------------------------- workers
\* for name := range t.names: take the next name, or leave the loop (and run
\* the deferred wg.Done) when the channel is closed and drained.
RunRange(ws) ==
  /\ Running /\ ws.pc = "range"
  /\ IF names # <<>>
     THEN /\ pool' = Step(ws, [ws EXCEPT !.pc = "begin", !.name = Head(names)])
          /\ names' = ChanRest(names)
          /\ runwg' = runwg
     ELSE /\ namesClosed
          /\ pool' = Step(ws, [ws EXCEPT !.pc = "exit"])
          /\ runwg' = runwg - 1
          /\ names' = names
  /\ UNCHANGED <<call, calls, variant, workers, splitNames, net, mainpc, namesClosed, results,
                 resultsClosed, chanCap, collected, spawned, torClient, nDialers,
                 abort>>

\* process up to the second go statement: wg.Add(2); r := result{Name: name};
\* go func() { r.Plain = ... }(); then
\*   block-tester.go: newDialer() (randomString, proxy.SOCKS5; either failure
\*     panics, with the plain probe already started), the tor resolver and
\*     client on that dialer, go func() { r.Tor = ... }()
\*   part_000: go func() { r.Tor = ... }() on t.torClient / t.torResolver.
ProcessBegin(ws) ==
  /\ Running /\ ws.pc = "begin"
  /\ LET w1 == [ws EXCEPT !.wg = ProbesPerName,
                          !.r = [Name |-> ws.name, Plain |-> Nil, Tor |-> Nil],
                          !.probe["Plain"] = ProbeSpawned]
     IN IF variant = BlockTester
        THEN \E rnd \in RandReads, fault \in {"none", "rand", "socks5"} :
               IF fault = "rand"
               THEN /\ abort' = "panic: rand.Read"
                    /\ pool' = Step(ws, w1)
                    /\ nDialers' = nDialers
               ELSE IF fault = "socks5"
               THEN /\ abort' = "panic: proxy.SOCKS5"
                    /\ pool' = Step(ws, [w1 EXCEPT !.rand = rnd])
                    /\ nDialers' = nDialers
               ELSE /\ abort' = abort
                    /\ nDialers' = nDialers + 1
                    /\ pool' = Step(ws, [w1 EXCEPT
                                  !.pc = "wait",
                                  !.rand = rnd,
                                  !.dialer = SOCKS5(nDialers + 1, RandomString(rnd)),
                                  !.probe["Tor"] = ProbeSpawned])
        ELSE /\ pool' = Step(ws, [w1 EXCEPT !.pc = "wait",
                                            !.dialer = torClient,
                                            !.probe["Tor"] = ProbeSpawned])
             /\ UNCHANGED <<nDialers, abort>>
  /\ UNCHANGED <<call, calls, variant, workers, splitNames, net, mainpc, names, namesClosed,
                 results, resultsClosed, chanCap, collected, spawned, runwg, torClient>>

\* process: wg.Wait(), then if r.Tor.Error != "" {...} else {...}: the status
\* line, printed when Wait returns.  A nil r.Tor panics.
ProcessPrint(ws) ==
  /\ Running /\ ws.pc = "wait"
  /\ WaitReturns(ws.wg)
  /\ IF ws.r.Tor = Nil
     THEN abort' = "panic: nil pointer dereference" /\ pool' = pool
     ELSE abort' = abort /\ pool' = Step(ws, [ws EXCEPT !.pc = "send"])
  /\ UNCHANGED <<call, calls, variant, workers, splitNames, net, mainpc, names, namesClosed,
                 results, resultsClosed, chanCap, collected, spawned, runwg, torClient,
                 nDialers>>

\* A process that returns without sending when the tor path failed.
ProcessSendDropsFailed(ws) ==
  /\ Running /\ ws.pc = "send"
  /\ Len(results) < chanCap
  /\ results' = IF ws.r.Tor.Error # "" THEN results ELSE ChanSend(results, ws.r)
  /\ pool' = Step(ws, NewWorker)
  /\ UNCHANGED <<call, calls, variant, workers, splitNames, net, mainpc, names, namesClosed,
                 resultsClosed, chanCap, collected, spawned, runwg, torClient,
                 nDialers, abort>>

\* process: t.results <- r, a copy of r as it is now; process returns.  A probe
\* goroutine that has not yet assigned its field writes to the dead local r
\* afterwards, which nothing reads: it is dropped here.
ProcessSend(ws) ==
  /\ Running /\ ws.pc = "send"
  /\ Len(results) < chanCap
  /\ results' = ChanSend(results, ws.r)
  /\ pool' = Step(ws, NewWorker)
  /\ UNCHANGED <<call, calls, variant, workers, splitNames, net, mainpc, names, namesClosed,
                 resultsClosed, chanCap, collected, spawned, runwg, torClient,
                 nDialers, abort>>

\* ---------------------------------------------------------------- probes
\* A probe goroutine that calls processName again when the outcome has an Error.
ProcessNameRetries(ws, p) ==
  /\ Running /\ ws.probe[p].stage = "spawned"
  /\ \E d1 \in Durations, d2 \in Durations :
       LET out == ProcessNameResult(ClientOf(net, p, ws.name), GrabPage(p), d1, d2,
                                    variant)
       IN  pool' = IF out.Error # "" /\ calls[p] <= Len(splitNames)
                   THEN pool
                   ELSE Step(ws, [ws EXCEPT !.wg = ws.wg - 1,
                                            !.probe[p] = [stage |-> "returned",
                                                          out |-> out]])
  /\ calls' = [calls EXCEPT ![p] = @ + 1]
  /\ UNCHANGED <<call, variant, workers, splitNames, net, mainpc, names, namesClosed,
                 results, resultsClosed, chanCap, collected, spawned, runwg, torClient,
                 nDialers, abort>>

\* One run of processName by the goroutine of path p, with the deferred
\* wg.Done; the value it returns is not yet assigned.
ProcessName(ws, p) ==
  /\ Running /\ ws.probe[p].stage = "spawned"
  /\ \E d1 \in Durations, d2 \in Durations :
       pool' = Step(ws, [ws EXCEPT
                  !.wg = ws.wg - 1,
                  !.probe[p] = [stage |-> "returned",
                                out |-> ProcessNameResult(ClientOf(net, p, ws.name),
                                                          GrabPage(p), d1, d2, variant)]])
  /\ calls' = [calls EXCEPT ![p] = @ + 1]
  /\ UNCHANGED <<call, variant, workers, splitNames, net, mainpc, names, namesClosed,
                 results, resultsClosed, chanCap, collected, spawned, runwg, torClient,
                 nDialers, abort>>

\* The closure's assignment r.Plain = <returned value> / r.Tor = <returned value>.
ProbeAssign(ws, p) ==
  /\ Running /\ ws.probe[p].stage = "returned"
  /\ pool' = Step(ws, [ws EXCEPT !.r[p] = ws.probe[p].out,
                                 !.probe[p] = [stage |-> "assigned", out |-> Nil]])
  /\ UNCHANGED <<call, calls, variant, workers, splitNames, net, mainpc, names, namesClosed,
                 results, resultsClosed, chanCap, collected, spawned, runwg, torClient,
                 nDialers, abort>>

Next ==
  \/ MainSetup
  \/ MainLoad
  \/ MainClose
  \/ RunSpawn
  \/ RunWait
  \/ MainCollect
  \/ \E ws \in WorkerStates : RunRange(ws)
  \/ \E ws \in WorkerStates : ProcessBegin(ws)
  \/ \E ws \in WorkerStates : ProcessPrint(ws)
  \/ \E ws \in WorkerStates : ProcessSend(ws)
  \/ \E ws \in WorkerStates, p \in Paths : ProcessName(ws, p)
  \/ \E ws \in WorkerStates, p \in Paths : ProbeAssign(ws, p)

Spec == Init /\ [][Next]_vars

\* The Go scheduler runs a runnable goroutine: some enabled step is taken.
FairSpec == Spec /\ WF_vars(Next)

\* ------------------------------------------------- one processName call
\* One call of processName on path p, followed step by step against every
\* answer of the network; nothing else of the program runs.
InitProbe ==
  /\ variant \in Variants
  /\ \E p \in Paths, resp \in NetResponses :
       call = [pc |-> "resolve", path |-> p, resp |-> resp, r |-> NewBasicResult,
               steps |-> <<>>]
  /\ workers = 1
  /\ splitNames = <<"a">>
  /\ net = [k \in Paths \X NameSet |-> Succeeds]
  /\ mainpc = "setup"
  /\ names = <<>>
  /\ namesClosed = FALSE
  /\ results = <<>>
  /\ resultsClosed = FALSE
  /\ chanCap = 0
  /\ collected = <<>>
  /\ spawned = 0
  /\ runwg = 0
  /\ torClient = NoDialer
  /\ pool = EmptyBag
  /\ nDialers = 0
  /\ calls = [p \in Paths |-> 0]
  /\ abort = "none"

\* Lines 69-92: the DNS exchange and the answer loop.
CallResolve ==
  /\ call.pc = "resolve"
  /\ \E d \in Durations :
       call' = [call EXCEPT !.r = Resolve(call.r, call.resp, d, variant),
                            !.steps = Append(@, "resolve"),
                            !.pc = IF ResolveReturns(call.resp) THEN "done" ELSE "http"]
  /\ UNCHANGED <<calls, variant, workers, splitNames, net, mainpc, names,
                 namesClosed, results, resultsClosed, chanCap, collected, spawned,
                 runwg, torClient, pool, nDialers, abort>>

\* Lines 93-105: http.NewRequest and client.Do.
CallHTTPGet ==
  /\ call.pc = "http"
  /\ \E d \in Durations :
       call' = [call EXCEPT !.r = HTTPGet(call.r, call.resp, d),
                            !.steps = Append(@, "http"),
                            !.pc = IF HTTPReturns(call.resp) THEN "done" ELSE "body"]
  /\ UNCHANGED <<calls, variant, workers, splitNames, net, mainpc, names,
                 namesClosed, results, resultsClosed, chanCap, collected, spawned,
                 runwg, torClient, pool, nDialers, abort>>

\* Lines 106-114: if grabPage { ioutil.ReadAll ... }; return.
CallReadBody ==
  /\ call.pc = "body"
  /\ call' = [call EXCEPT !.r = ReadBody(call.r, call.resp, GrabPage(call.path)),
                          !.steps = IF GrabPage(call.path) THEN Append(@, "body") ELSE @,
                          !.pc = "done"]
  /\ UNCHANGED <<calls, variant, workers, splitNames, net, mainpc, names,
                 namesClosed, results, resultsClosed, chanCap, collected, spawned,
                 runwg, torClient, pool, nDialers, abort>>

NextProbe ==
  \/ CallResolve
  \/ CallHTTPGet
  \/ CallReadBody

SpecProbe == InitProbe /\ [][NextProbe]_vars


\* ================================================================ claims
\* Every CombinedResult sent on t.results so far, in the order sent.
Emitted == collected \o results

BagOfSeq(sq) ==
  LET elems == {sq[i] : i \in DOMAIN sq}
  IN  [x \in elems |-> Cardinality({i \in DOMAIN sq : sq[i] = x})]

NamesOf(sq) == [i \in DOMAIN sq |-> sq[i].Name]

\* run has returned to main: every worker it started has returned.
RunReturned == mainpc \in {"collect", "encode"}

Started(ws, p) == ws.probe[p].stage # "idle"
Finished(ws, p) == ws.probe[p].stage \in {"returned", "assigned"}

\* The outcome processName returned on path p of ws's name, once it has.
Returned(ws, p) ==
  IF ws.probe[p].stage = "returned" THEN ws.probe[p].out ELSE ws.r[p]

\* processName has returned on path p with a probe fault recorded.
Faulted(ws, p) == Finished(ws, p) /\ Returned(ws, p).Error # ""

\* C1: once run has returned, exactly N results have been emitted and the
\* multiset of their names is the multiset of the names loaded: no name is
\* lost and none is processed twice.
C1_EveryNameEmittedOnce ==
  RunReturned =>
    /\ Len(Emitted) = Len(splitNames)
    /\ BagOfSeq(NamesOf(Emitted)) = BagOfSeq(splitNames)

\* C1 witness: run has returned from a two-name input with a duplicate,
\* worked by more than one worker.
C1_Witness ==
  /\ mainpc = "collect"
  /\ workers > 1
  /\ Len(splitNames) = 2
  /\ splitNames[1] = splitNames[2]
  /\ Len(Emitted) = 2

\* C2 (as claimed): every CombinedResult sent on t.results has a non-nil
\* Plain and a non-nil Tor outcome.
C2_EmittedOutcomesNonNil ==
  \A i \in DOMAIN Emitted : Emitted[i].Plain # Nil /\ Emitted[i].Tor # Nil

\* C3 (as claimed): once all workers have returned, the collection loop of
\* main terminates and the program reaches the encoding step.
C3_RunReachesEncoding == (mainpc = "collect") ~> (mainpc = "encode")

\* C4: a worker whose wg.Wait may return (the status line is next) or that
\* is about to send the CombinedResult has both probes of its name out of
\* processName.
C4_EmitOnlyAfterBothProbes ==
  \A ws \in WorkerStates :
    ((ws.pc = "wait" /\ WaitReturns(ws.wg)) \/ ws.pc = "send") =>
      \A p \in Paths : Finished(ws, p)

\* C4 witness: a worker is about to send its result while another result has
\* already been emitted.
C4_Witness ==
  /\ \E ws \in WorkerStates : ws.pc = "send"
  /\ Len(Emitted) >= 1

\* C5 (as claimed): when random generation or dialer construction fails, no
\* probe of any name has been started.
C5_SetupFaultBeforeAnyProbe ==
  abort \in {"panic: rand.Read", "panic: proxy.SOCKS5"} =>
    /\ \A ws \in WorkerStates : \A p \in Paths : ~Started(ws, p)
    /\ Emitted = <<>>

\* C6 (as claimed): after a probe fault on a path of its name, the worker
\* goes on: its status-line step does not abort the run, and the
\* CombinedResult it sends carries the fault as that path's non-empty Error.
C6_FaultRecordedRunGoesOn ==
  [][\A ws \in WorkerStates : \A p \in Paths :
       Faulted(ws, p) =>
         /\ ProcessPrint(ws) => abort' = "none"
         /\ ProcessSend(ws) =>
              /\ results'[Len(results')][p] # Nil
              /\ results'[Len(results')][p].Error # ""]_vars

\* What the network's answer on path p makes processName return for name n.
OutcomeOf(p, n) ==
  LET d == CHOOSE x \in Durations : TRUE
  IN  ProcessNameResult(net[<<p, n>>], GrabPage(p), d, d, variant)

\* C7: the Tor outcome of a name is a function of the tor-path responses for
\* that name alone: whatever the plain path answered and however the probes
\* interleaved, every Tor outcome returned, assigned or emitted is the one the
\* tor-path responses determine.
C7_TorOutcomeIgnoresPlainPath ==
  /\ \A i \in DOMAIN Emitted :
       Emitted[i].Tor # Nil => Emitted[i].Tor = OutcomeOf("Tor", Emitted[i].Name)
  /\ \A ws \in WorkerStates :
       Finished(ws, "Tor") => Returned(ws, "Tor") = OutcomeOf("Tor", ws.name)

\* C7 witness: a result is emitted whose plain path failed to resolve and whose
\* tor path succeeded (the same name's plain path succeeds in the other network).
C7_Witness ==
  \E i \in DOMAIN Emitted :
    /\ Emitted[i].Plain # Nil
    /\ Emitted[i].Plain.Error # "" /\ Emitted[i].Plain.IP = ""
    /\ Emitted[i].Tor # Nil
    /\ Emitted[i].Tor.Error = "" /\ Emitted[i].Tor.Page # ""

\* C8 (as claimed): with deterministic probes (every network of Nets), the
\* multiset of CombinedResults run produces is the one the names determine,
\* for every worker count and interleaving.
C8_SameResultsForEveryWorkerCount ==
  RunReturned =>
    BagOfSeq(Emitted) =
      BagOfSeq([i \in DOMAIN splitNames |->
                  [Name |-> splitNames[i],
                   Plain |-> OutcomeOf("Plain", splitNames[i]),
                   Tor |-> OutcomeOf("Tor", splitNames[i])]])

\* The worker's process call has built its own dialer (block-tester.go).
HasOwnDialer(ws) == ws.dialer.id > 0

\* C9 (as claimed): two process calls for different names never hold the same
\* generated credential pair.
C9_CredentialPairsNeverEqual ==
  \A ws1 \in WorkerStates : \A ws2 \in WorkerStates :
    (HasOwnDialer(ws1) /\ HasOwnDialer(ws2) /\ ws1.name # ws2.name) =>
      <<ws1.dialer.user, ws1.dialer.password>> # <<ws2.dialer.user, ws2.dialer.password>>

\* C9 (amended): every generated pair is the hex encoding of the bytes
\* rand.Read gave to that call's own newDialer, used as user and as password.
\* Two calls hold equal pairs only when two reads return the same bytes.
C9_CredentialIsOwnRandomDraw ==
  \A ws \in WorkerStates :
    HasOwnDialer(ws) =>
      /\ ws.dialer.user = ws.dialer.password
      /\ ws.rand \in RandReads
      /\ ws.dialer.user = Hex(ws.rand)

\* C9 witness: two process calls in flight hold different generated pairs.
C9_Witness ==
  \E ws1 \in WorkerStates : \E ws2 \in WorkerStates :
    /\ HasOwnDialer(ws1) /\ HasOwnDialer(ws2)
    /\ ws1.dialer.user # ws2.dialer.user

\* The number of process calls that are past their go statement for the tor
\* probe.
CallsPastTor ==
  (IF namesClosed THEN Len(splitNames) - Len(names) ELSE 0)
    - BagCardinality([ws \in {x \in WorkerStates : x.pc = "begin"} |->
                        CopiesIn(ws, pool)])

\* C10 (as claimed): no tor dialer/resolver/client is used by two probes.
C10_TorClientNeverShared ==
  \A ws1 \in WorkerStates : \A ws2 \in WorkerStates :
    (Started(ws1, "Tor") /\ Started(ws2, "Tor")) =>
      /\ CopiesIn(ws1, pool) = 1
      /\ ws1 # ws2 => ws1.dialer.id # ws2.dialer.id

\* C10 (amended): in block-tester.go newDialer has been called once per process
\* call and every tor probe runs on the dialer its own call built, which no
\* other probe holds; in part_000 every tor probe runs on the one tor
\* resolver and client main built.
C10_OwnTorClientOnlyInBlockTester ==
  /\ variant = BlockTester =>
       /\ nDialers = CallsPastTor
       /\ \A ws1 \in WorkerStates : \A ws2 \in WorkerStates :
            (Started(ws1, "Tor") /\ Started(ws2, "Tor")) =>
              /\ CopiesIn(ws1, pool) = 1
              /\ ws1.dialer.id \in 1..nDialers
              /\ ws1 # ws2 => ws1.dialer.id # ws2.dialer.id
  /\ variant = Part000 =>
       /\ nDialers = 0
       /\ \A ws \in WorkerStates :
            Started(ws, "Tor") => ws.dialer = torClient /\ torClient = SharedDialer

\* C10 witness: in block-tester.go two tor probes are in flight at once.
C10_Witness ==
  /\ variant = BlockTester
  /\ \E ws1 \in WorkerStates : \E ws2 \in WorkerStates :
       /\ ws1 # ws2
       /\ ws1.probe["Tor"].stage = "spawned"
       /\ ws2.probe["Tor"].stage = "spawned"

\* ------------------------------------------------------ workers and queues
\* The number of workers of the pool whose state is in S.
InPool(S) == BagCardinality([ws \in S \cap WorkerStates |-> CopiesIn(ws, pool)])

\* The name occurrences taken from the names queue so far.
NamesTaken == IF namesClosed THEN Len(splitNames) - Len(names) ELSE 0

\* Workers inside a process call.
InProgress == {ws \in WorkerStates : ws.pc \in {"begin", "wait", "send"}}

\* C15: no probe is retried: on each path no more processName calls have run
\* than name occurrences were taken from the names queue, whatever the
\* outcomes, and once run has returned exactly one call per name occurrence
\* has run on each path.
C15_OneCallPerNameAndPath ==
  \A p \in Paths :
    /\ calls[p] <= NamesTaken
    /\ calls[p] = Len(Emitted) + InPool({ws \in InProgress : Finished(ws, p)})
    /\ RunReturned => calls[p] = Len(splitNames)

\* C15 witness: run has returned from two names, one of them with a failed
\* tor probe.
C15_Witness ==
  /\ mainpc = "collect"
  /\ Len(splitNames) = 2
  /\ calls["Tor"] = 2
  /\ \E i \in DOMAIN Emitted : Emitted[i].Tor # Nil /\ Emitted[i].Tor.Error # ""

\* C16: neither queue exceeds its capacity and no send blocks: main loads
\* the names before any worker exists and always finds room, the results
\* queue holds at most N items, and a worker about to send finds room.
C16_QueuesWithinCapacity ==
  /\ Len(names) <= chanCap
  /\ Len(results) <= chanCap
  /\ chanCap <= Len(splitNames)
  /\ mainpc = "load" =>
       /\ pool = EmptyBag /\ spawned = 0
       /\ Len(names) < Len(splitNames) => Len(names) < chanCap
  /\ \A ws \in WorkerStates : ws.pc = "send" => Len(results) < chanCap
  /\ mainpc = "run" => collected = <<>>

\* C16 witness: a worker is about to send into the last free slot of the
\* results queue while no one has received from it.
C16_Witness ==
  /\ mainpc = "run"
  /\ Len(results) >= 1
  /\ Len(results) = chanCap - 1
  /\ \E ws \in WorkerStates : ws.pc = "send"

\* C17: no partial flush: main has received no result, and has not reached the
\* encoding step, unless run has returned, every worker has left its loop,
\* the names queue is empty and every name has its result emitted.
C17_NoPartialFlush ==
  (collected # <<>> \/ mainpc \in {"collect", "encode"}) =>
    /\ RunReturned
    /\ \A ws \in WorkerStates : ws.pc = "exit"
    /\ InPool(WorkerStates) = workers
    /\ names = <<>>
    /\ Len(Emitted) = Len(splitNames)

\* C17 witness: main has received a result of a two-name run.
C17_Witness ==
  /\ Len(collected) >= 1
  /\ Len(splitNames) = 2
  /\ workers > 1

\* C18: run starts exactly W workers and each handles its names one after
\* the other: at most W names are in progress, at most W plain and W tor
\* probes are in flight, and with W = 1 a name is in progress only when the
\* result of every earlier name has been emitted.
C18_AtMostWNamesInProgress ==
  /\ spawned <= workers
  /\ InPool(WorkerStates) = spawned
  /\ RunReturned => spawned = workers
  /\ InPool(InProgress) <= workers
  /\ \A p \in Paths :
       InPool({ws \in WorkerStates : ws.probe[p].stage = "spawned"}) <= workers
  /\ \A ws \in WorkerStates \ InProgress : \A p \in Paths : ~Started(ws, p)
  /\ \A ws \in InProgress : workers = 1 => Len(Emitted) = NamesTaken - 1

\* C18 witness: the single worker has started the probes of the second name.
C18_Witness ==
  /\ workers = 1
  /\ Len(Emitted) = 1
  /\ \E ws \in WorkerStates : \A p \in Paths : ws.probe[p].stage = "spawned"

\* C19 (as claimed): the run never crashes with a nil-pointer fault in the
\* coordinator: when r.Tor.Error is evaluated, r.Tor has been assigned.
C19_NoNilTorDereference == abort # "panic: nil pointer dereference"

\* C20 (as claimed): with every probe terminating and no fault in the setup
\* of a proxy identity, run returns: every worker sees the closed, drained
\* names queue and exits.
C20_RunReturns ==
  (mainpc = "run") ~>
    (mainpc = "collect" \/ abort \in {"panic: rand.Read", "panic: proxy.SOCKS5"})

\* ------------------------------------------------ one processName call
\* The position of the first A record of an answer section, 0 if none.
FirstAIndex(answer) ==
  IF \E i \in DOMAIN answer : answer[i].type = "A"
  THEN CHOOSE i \in DOMAIN answer :
         /\ answer[i].type = "A"
         /\ \A j \in 1..(i - 1) : answer[j].type # "A"
  ELSE 0

\* The followed call has just run its resolution step.
AfterResolution == call.steps = <<"resolve">>

\* C11: immediately after the resolution step exactly one of two cases holds:
\* Error is non-empty and IP is empty (exchange error, zero answers, no A
\* record among the answers), or IP is the address of the first A record and
\* Error is empty.
C11_ResolutionErrorXorIP ==
  AfterResolution =>
    LET r == call.r
        dns == call.resp.dns
        failed == dns.err \/ FirstAIndex(dns.answer) = 0
    IN  /\ failed => (r.Error # "" /\ r.IP = "")
        /\ ~failed => (r.Error = "" /\ r.IP # ""
                         /\ r.IP = dns.answer[FirstAIndex(dns.answer)].a)

\* C11 witness: resolution has picked the first of two A records with
\* different addresses.
C11_Witness ==
  /\ AfterResolution
  /\ Len(call.resp.dns.answer) = 2
  /\ call.resp.dns.answer[1].type = "A"
  /\ call.resp.dns.answer[2].type = "A"
  /\ call.resp.dns.answer[1].a # call.resp.dns.answer[2].a
  /\ call.r.IP = call.resp.dns.answer[1].a

\* The steps of the followed call so far are a prefix of resolve, HTTP GET,
\* body read.
StepsInOrder ==
  \E n \in 0..3 : call.steps = SubSeq(<<"resolve", "http", "body">>, 1, n)

StepRun(step) == \E i \in DOMAIN call.steps : call.steps[i] = step

\* C12: the steps of a probe run in the order resolve, HTTP GET, body read;
\* an HTTP request is issued only after resolution produced an A-record
\* address, the body is read only after a successful HTTP response and only
\* when grabPage is true, and no step is run once a step has set Error.  The
\* call returns what processName computes as a whole.
C12_StepsInOrderFirstFailureReturns ==
  /\ [](/\ StepsInOrder
        /\ StepRun("http") =>
             /\ ~call.resp.dns.err
             /\ FirstAIndex(call.resp.dns.answer) # 0
             /\ call.r.IP # ""
        /\ StepRun("body") => (call.resp.http = "ok" /\ GrabPage(call.path))
        /\ call.pc = "done" =>
             \E d1 \in Durations, d2 \in Durations :
               call.r = ProcessNameResult(call.resp, GrabPage(call.path), d1, d2, variant))
  /\ [][call.r.Error # "" => call'.steps = call.steps]_vars

\* C12 witness: a tor probe has returned after a failed client.Do, without
\* reading the body.
C12_Witness ==
  /\ call.pc = "done"
  /\ call.path = "Tor"
  /\ call.steps = <<"resolve", "http">>
  /\ call.resp.http = "err"
  /\ call.r.Error # ""

\* C13: the outcome of a plain probe (grabPage false) has an empty Page, and
\* the outcome of a tor probe has a non-empty Page only if its resolution and
\* its HTTP request both succeeded.
C13_PageOnlyWhenRequested ==
  /\ call.path = "Plain" => call.r.Page = ""
  /\ call.r.Page # "" =>
       /\ call.path = "Tor"
       /\ ~call.resp.dns.err
       /\ FirstAIndex(call.resp.dns.answer) # 0
       /\ call.resp.http = "ok"

\* C13 witness: a plain probe has returned from a successful HTTP response
\* whose body has bytes, and has not read them.
C13_Witness ==
  /\ call.pc = "done"
  /\ call.path = "Plain"
  /\ call.resp.http = "ok"
  /\ StepRun("http")
  /\ call.resp.body.data # ""

\* C14: a failing later step leaves what earlier steps recorded: the HTTP GET
\* leaves LookupTook and IP as they are and, when client.Do fails, records
\* HTTPConnectionTook; the body read leaves LookupTook, IP and
\* HTTPConnectionTook as they are and writes only Error and Page.
C14_LaterFailureKeepsEarlierFields ==
  [][/\ (call.pc = "http" /\ call'.pc # "http") =>
          /\ call'.r.LookupTook = call.r.LookupTook
          /\ call'.r.IP = call.r.IP
          /\ call'.r.Page = call.r.Page
          /\ call.resp.http = "err" =>
               (call'.r.HTTPConnectionTook \in Durations /\ call'.r.Error # "")
     /\ (call.pc = "body" /\ call'.pc # "body") =>
          /\ call'.r.LookupTook = call.r.LookupTook
          /\ call'.r.IP = call.r.IP
          /\ call'.r.HTTPConnectionTook = call.r.HTTPConnectionTook
          /\ call'.r.LookupTook \in Durations
          /\ call'.r.HTTPConnectionTook \in Durations
          /\ call'.r.IP # ""
          /\ (GrabPage(call.path) /\ call.resp.body.err) => call'.r.Error # ""]_vars

\* C14 witness: a tor probe has returned from a failed body read.
C14_Witness ==
  /\ call.pc = "done"
  /\ call.steps = <<"resolve", "http", "body">>
  /\ call.resp.body.err
  /\ call.r.Error # ""
  /\ call.r.LookupTook \in Durations
  /\ call.r.HTTPConnectionTook \in Durations

====
